---------------------------- MODULE Spec2Model ----------------------------
(***************************************************************************)
(* A model of the server-side TUN worker of quincy (src/src/tun.rs): the   *)
(* worker's task handles, its two spawned tasks (TUN -> clients reader,    *)
(* clients -> TUN writer), the locks the tasks take, the write queue, the  *)
(* connection map and the QUIC connections the reader sends datagrams on.  *)
(*                                                                         *)
(* Packets are byte sequences (tuples of numbers 0..255, 1-based here,     *)
(* 0-based in the comments that quote offsets of the wire formats).        *)
(***************************************************************************)
EXTENDS Integers, Sequences, FiniteSets, TLC

(***************************************************************************)
(* Bounds of the model                                                     *)
(***************************************************************************)
\* how many times start_workers may succeed in one behaviour
MaxStarts == 2
\* how many datagrams the connections take in one behaviour
MaxSent == 2
\* how many buffers the producers enqueue in one behaviour
MaxEnq == 2
\* TunWorker::new's buffer_size argument (connection.buffer_size)
BufferSize == 64
\* the session tokens generated in a run
MaxTokens == 3
\* the calls of Auth::reset in a run
MaxResets == 2
\* the passes of the supervisor loop in a run
MaxTicks == 2

\* Option::None of a task handle, of a lock's holder, of a datagram size, of
\* an address and of a connection
NoTask == 0
NoMds == -1
NoAddr == <<>>
NoConn == "none"

(***************************************************************************)
(* Byte-sequence helpers                                                   *)
(***************************************************************************)
\* big-endian u16 at 1-based position i
U16(s, i) == s[i] * 256 + s[i + 1]

Drop(s, n) == SubSeq(s, n + 1, Len(s))

\* read_buf on a buffer with no spare capacity reserves this many bytes
MinReserve == 64

\* what one read_buf puts into BytesMut::with_capacity(n): as much of the
\* packet as the buffer has room for, the room being n bytes, or the bytes
\* reserved when n is 0
Take(s, n) ==
    LET room == IF n = 0 THEN MinReserve ELSE n
    IN  IF Len(s) <= room THEN s ELSE SubSeq(s, 1, room)

(***************************************************************************)
(* etherparse's PacketHeaders::from_ethernet_slice, as far as line 111..120*)
(* of tun.rs depend on it: Err(..), Ok with ip = None, or Ok with the        *)
(* destination address of the IP header.  Modelled: the Ethernet II        *)
(* header, up to two VLAN tags, the IPv4 and IPv6 base headers, and the    *)
(* UDP/TCP header the crate decodes after an unfragmented IP header.  IP   *)
(* extension headers and ICMP are not modelled; no packet below uses them. *)
(***************************************************************************)
ParseErr == [tag |-> "Err"]
ParseNoIp == [tag |-> "NoIp"]
ParseIp(d) == [tag |-> "Ip", dest |-> d]

\* ether_type values: 0x8100, 0x88a8, 0x9100 (VLAN), 0x0800, 0x86dd
VlanEtherTypes == {129 * 256, 136 * 256 + 168, 145 * 256}
EtherTypeIpv4 == 8 * 256
EtherTypeIpv6 == 134 * 256 + 221

\* read_transport: TCP (6) and UDP (17) headers must be complete
TransportOk(protocol, rest) ==
    CASE protocol = 17 -> Len(rest) >= 8
      [] protocol = 6 -> /\ Len(rest) >= 20
                         /\ rest[13] \div 16 >= 5
                         /\ Len(rest) >= (rest[13] \div 16) * 4
      [] OTHER -> TRUE

\* Ipv4Header::from_slice, then the transport header unless fragmented
ParseIpv4(s) ==
    IF Len(s) < 20 THEN ParseErr
    ELSE LET version == s[1] \div 16
             ihl == s[1] % 16
             hlen == ihl * 4
             total_len == U16(s, 3)
             fragmented == \/ (s[7] \div 32) % 2 = 1
                           \/ (s[7] % 32) * 256 + s[8] /= 0
         IN  IF version /= 4 \/ ihl < 5 \/ Len(s) < hlen \/ total_len < hlen
             THEN ParseErr
             ELSE IF ~fragmented /\ ~TransportOk(s[10], Drop(s, hlen))
                  THEN ParseErr
                  ELSE ParseIp(SubSeq(s, 17, 20))

\* Ipv6Header::from_slice, then the transport header
ParseIpv6(s) ==
    IF Len(s) < 40 THEN ParseErr
    ELSE IF s[1] \div 16 /= 6 THEN ParseErr
    ELSE IF ~TransportOk(s[7], Drop(s, 40)) THEN ParseErr
    ELSE ParseIp(SubSeq(s, 25, 40))

ParseNet(ether_type, rest) ==
    CASE ether_type = EtherTypeIpv4 -> ParseIpv4(rest)
      [] ether_type = EtherTypeIpv6 -> ParseIpv6(rest)
      [] OTHER -> ParseNoIp

\* a SingleVlanHeader is 4 bytes, its ether_type the last two
ParseVlan(rest) ==
    IF Len(rest) < 4 THEN ParseErr
    ELSE LET et == U16(rest, 3) IN
         IF et \in VlanEtherTypes
         THEN IF Len(rest) < 8 THEN ParseErr
              ELSE ParseNet(U16(rest, 7), Drop(rest, 8))
         ELSE ParseNet(et, Drop(rest, 4))

from_ethernet_slice(buf) ==
    IF Len(buf) < 14 THEN ParseErr
    ELSE LET et == U16(buf, 13) IN
         IF et \in VlanEtherTypes THEN ParseVlan(Drop(buf, 14))
         ELSE ParseNet(et, Drop(buf, 14))

(***************************************************************************)
(* What the TUN device delivers.  make_tun builds the device with          *)
(* tap(false) and packet_info(false): every read yields one bare IP        *)
(* packet, no Ethernet header and no packet-info prefix.  L3Dest is the    *)
(* destination address of such a packet.                                   *)
(***************************************************************************)
L3Dest(pkt) ==
    IF Len(pkt) >= 20 /\ pkt[1] \div 16 = 4 THEN SubSeq(pkt, 17, 20)
    ELSE IF Len(pkt) >= 40 /\ pkt[1] \div 16 = 6 THEN SubSeq(pkt, 25, 40)
    ELSE NoAddr

(***************************************************************************)
(* The packets the model lets the device deliver.  Each is a well-formed   *)
(* bare IPv4 packet.  Those sent from 8.0.69.0 carry the bytes 0x08 0x00   *)
(* 0x45 at offsets 12..14, so that read as an Ethernet frame they have the *)
(* ether_type of IPv4 and, from offset 14 on, a second IPv4 header whose   *)
(* destination (offsets 30..33) InnerTail sets.                            *)
(***************************************************************************)
Gateway == <<10, 0, 0, 1>>
IpA == <<10, 0, 0, 2>>
IpB == <<10, 0, 0, 3>>
IpNobody == <<10, 0, 0, 9>>
SrcEth == <<8, 0, 69, 0>>
SrcEthBad == <<8, 0, 1, 1>>

\* protocol 253: "use for experimentation", no transport header is decoded
Ipv4Packet(src, dst, payload) ==
    LET n == 20 + Len(payload) IN
    <<69, 0, n \div 256, n % 256, 0, 0, 0, 0, 64, 253, 0, 0>>
        \o src \o dst \o payload

InnerTail(dst) == <<0, 0, 64, 253, 0, 0>> \o Gateway \o dst

Pad == <<1, 2, 3, 4, 5, 6, 7, 8, 9, 10>>

\* the kernel-origin packet of scenario S5: 10.0.0.1 -> 10.0.0.3
PktPlainToB == Ipv4Packet(Gateway, IpB, <<222, 173, 190, 239>>)
\* 34 bytes; bare-IP destination and Ethernet-framed destination agree
PktToA == Ipv4Packet(SrcEth, IpA, InnerTail(IpA))
PktToB == Ipv4Packet(SrcEth, IpB, InnerTail(IpB))
\* 44 bytes
PktBigToA == Ipv4Packet(SrcEth, IpA, InnerTail(IpA) \o Pad)
PktToNobody == Ipv4Packet(SrcEth, IpNobody, InnerTail(IpNobody))
\* 20 bytes from 8.0.1.1: as an Ethernet frame, IPv4 with a 6-byte header
PktTruncated == Ipv4Packet(SrcEthBad, IpNobody, <<>>)

Packets ==
    {PktPlainToB, PktToA, PktToB, PktBigToA, PktToNobody, PktTruncated}

Conns == {"cA", "cB"}
Ips == {IpA, IpB}
\* the values Connection::max_datagram_size() may report for a connection
MdsValues == {NoMds, 40}

(***************************************************************************)
(* The users of Auth and the tunnels of QuincyServer                       *)
(***************************************************************************)
\* Argon2 with a salt, as far as the model needs it: the digest is
\* determined by the salt and the password, and two passwords never share one
Digest(salt, password) == <<salt, password>>

\* PasswordHasher::hash_password(..).to_string(): the PHC string
hash_password(password, salt) == <<"$argon2id", salt, Digest(salt, password)>>

\* a stored hash that is no PHC string
MalformedHash == <<"garbage">>

\* Auth.users as given to Auth::new: username -> password hash; the map is
\* never written after construction
users ==
    [u \in {"alice", "bob", "carol"} |->
        CASE u = "alice" -> hash_password("hunter2", 1)
          [] u = "bob"   -> hash_password("swordfish", 2)
          [] OTHER       -> MalformedHash]

\* the usernames and passwords clients present
Usernames == DOMAIN users \cup {"eve"}
Passwords == {"hunter2", "swordfish"}

NoUser == "(none)"

\* a session token is named by the number of its draw from the generator;
\* 0 stands for no token
NoToken == 0

\* QuincyServer.active_tunnels, by name
Tunnels == {"t1", "t2", "t3"}

\* the orders in which active_tunnels.iter_mut() may visit the tunnels
Orders ==
    {o \in [1 .. Cardinality(Tunnels) -> Tunnels] :
        \A i, j \in DOMAIN o : i /= j => o[i] /= o[j]}

\* what a tunnel's start() or stop() may return
Results == {"ok", "err"}

(***************************************************************************)
(* State                                                                   *)
(***************************************************************************)
VARIABLES
    reader_task,        \* TunWorker.reader_task: None or a task id
    writer_task,        \* TunWorker.writer_task: None or a task id
    tasks,              \* the tasks spawned so far, by id
    tun_read_owner,     \* holder of tun_read's write guard, 0 if free
    tun_write_owner,    \* holder of tun_write's write guard, 0 if free
    rx_owner,           \* holder of write_queue_receiver's guard, 0 if free
    map_readers,        \* tasks holding a read guard of active_connections
    active_connections, \* IpAddr -> connection
    conn_open,          \* connection -> not yet closed
    conn_mds,           \* connection -> max_datagram_size()
    sent,               \* connection -> datagrams accepted by send_datagram
    last,               \* history: what the reader did with its last packet
    queue,              \* the unbounded channel's content
    senders_open,       \* some UnboundedSender (the worker's own) is alive
    enqueued,           \* history: every buffer ever sent on the channel
    tun_written,        \* the buffers written to the device, in order
    lost,               \* history: buffers received but never written
    sessions,           \* Auth.users: username -> the user's session set
    next_token,         \* the number of session tokens generated so far
    issued,             \* history: the tokens authenticate has returned
    reset_todo,         \* Auth::reset: the entries its loop has yet to visit
    resets_started,     \* history: the number of reset calls begun
    resets_done,        \* history: the number of reset calls returned
    auth_last,          \* history: the last call on Auth and its result
    run_pc,             \* QuincyServer::run: where it stands
    run_todo,           \* the tunnels the running for loop has yet to visit
    tunnel_up,          \* tunnel -> start() has succeeded, stop() not since
    tunnel_ok,          \* tunnel -> is_ok()
    tick_log,           \* history: the calls of the current pass, in order
    ticks               \* history: the number of passes of the loop begun

vars == <<reader_task, writer_task, tasks, tun_read_owner, tun_write_owner,
          rx_owner, map_readers, active_connections, conn_open, conn_mds,
          sent, last, queue, senders_open, enqueued, tun_written,
          lost, sessions, next_token, issued, reset_todo, resets_started,
          resets_done, auth_last, run_pc, run_todo, tunnel_up, tunnel_ok,
          tick_log, ticks>>

lifeVars == <<reader_task, writer_task>>
readerVars == <<tun_read_owner, map_readers, sent, last>>
connVars == <<active_connections, conn_open, conn_mds>>
writerVars == <<tun_write_owner, rx_owner, queue, enqueued, tun_written,
                lost>>
tunVars == <<lifeVars, tasks, readerVars, connVars, writerVars, senders_open>>
authVars == <<sessions, next_token, issued, reset_todo, resets_started,
              resets_done, auth_last>>
serverVars == <<run_pc, run_todo, tunnel_up, tunnel_ok, tick_log, ticks>>
\* what no step of a TunWorker touches
otherVars == <<authVars, serverVars>>

TaskIds == 1 .. Len(tasks)
Readers == {t \in TaskIds : tasks[t].kind = "reader"}
Writers == {t \in TaskIds : tasks[t].kind = "writer"}

NewTask(k) ==
    [kind |-> k, pc |-> "lock_tun", abort |-> FALSE, result |-> "none",
     buf |-> <<>>, dest |-> NoAddr]

Logged(t, buf, what) == [task |-> t, buf |-> buf, outcome |-> what]

\* TunWorker::new, Auth::new and QuincyServer::new, before any call
Init ==
    /\ reader_task = NoTask
    /\ writer_task = NoTask
    /\ tasks = <<>>
    /\ tun_read_owner = NoTask
    /\ tun_write_owner = NoTask
    /\ rx_owner = NoTask
    /\ map_readers = {}
    /\ active_connections = <<>>
    /\ conn_open = [c \in Conns |-> TRUE]
    /\ conn_mds \in [Conns -> MdsValues]
    /\ sent = [c \in Conns |-> <<>>]
    /\ last = Logged(NoTask, <<>>, "none")
    /\ queue = <<>>
    /\ senders_open = TRUE
    /\ enqueued = <<>>
    /\ tun_written = <<>>
    /\ lost = <<>>
    /\ sessions = [u \in DOMAIN users |-> {}]
    /\ next_token = 0
    /\ issued = {}
    /\ reset_todo = {}
    /\ resets_started = 0
    /\ resets_done = 0
    /\ auth_last = [op |-> "none", username |-> NoUser, token |-> NoToken,
                    result |-> "none"]
    /\ run_pc = "new"
    /\ run_todo = <<>>
    /\ tunnel_up = [n \in Tunnels |-> FALSE]
    /\ tunnel_ok = [n \in Tunnels |-> TRUE]
    /\ tick_log = <<>>
    /\ ticks = 0

(***************************************************************************)
(* TunWorker::start_workers and TunWorker::stop_workers                    *)
(***************************************************************************)
\* a start_workers that takes a finished reader task for no reader task
AlreadyStarted_live ==
    reader_task /= NoTask /\ tasks[reader_task].pc /= "done"

\* a start_workers without the check of line 56
AlreadyStarted_mut == FALSE

\* line 56: start_workers looks at reader_task alone
AlreadyStarted == reader_task /= NoTask

\* tokio::spawn: the new task starts at the first await of its body
Spawn(k) == Append(tasks, NewTask(k))

start_workers_ok ==
    /\ senders_open
    /\ ~AlreadyStarted
    /\ Len(tasks) + 2 <= 2 * MaxStarts
    /\ tasks' = Append(Spawn("reader"), NewTask("writer"))
    /\ reader_task' = Len(tasks) + 1
    /\ writer_task' = Len(tasks) + 2
    /\ UNCHANGED <<readerVars, connVars, writerVars, senders_open, otherVars>>

\* Err("There is already a reader job active"): nothing is touched
start_workers_err ==
    /\ senders_open
    /\ AlreadyStarted
    /\ UNCHANGED vars

\* a stop_workers that clears the handles without aborting the tasks
Abort_mut(ts, t) == ts

\* JoinHandle::abort: a task that has finished is left as it is; any other
\* task is marked and is dropped at one of its await points (TaskCancel)
Abort(ts, t) ==
    IF ts[t].pc = "done" THEN ts ELSE [ts EXCEPT ![t].abort = TRUE]

\* lines 80..96 with both handles set: both tasks are aborted
stop_workers_ok ==
    /\ senders_open
    /\ reader_task /= NoTask
    /\ writer_task /= NoTask
    /\ tasks' = Abort(Abort(tasks, reader_task), writer_task)
    /\ reader_task' = NoTask
    /\ writer_task' = NoTask
    /\ UNCHANGED <<readerVars, connVars, writerVars, senders_open, otherVars>>

\* line 83 on reader_task = None: Err("Reader task not active"), nothing
\* touched; line 91 on writer_task = None: Err("Writer task not active")
\* after the reader has been aborted and its handle cleared
stop_workers_err ==
    /\ senders_open
    /\ ~(reader_task /= NoTask /\ writer_task /= NoTask)
    /\ IF reader_task = NoTask
       THEN UNCHANGED vars
       ELSE /\ tasks' = Abort(tasks, reader_task)
            /\ reader_task' = NoTask
            /\ UNCHANGED <<writer_task, readerVars, connVars, writerVars,
                           senders_open, otherVars>>

(***************************************************************************)
(* Locks.  tun_read, tun_write and write_queue_receiver are tokio RwLocks  *)
(* that the tasks only ever lock for writing (lines 104, 152, 153).        *)
(***************************************************************************)
\* a lock that hands out a second write guard
CanLock_mut(owner) == TRUE

\* RwLock::write() resolves only when no guard is out
CanLock(owner) == owner = NoTask

Release(owner, t) == IF owner = t THEN NoTask ELSE owner

\* an await point of the reader / writer body
Suspended(t) ==
    IF tasks[t].kind = "reader"
    THEN tasks[t].pc \in {"lock_tun", "read", "lock_map"}
    ELSE tasks[t].pc \in {"lock_tun", "lock_rx", "recv", "write"}

Finish(t, res) ==
    [tasks EXCEPT ![t].pc = "done", ![t].result = res, ![t].abort = FALSE,
                  ![t].buf = <<>>, ![t].dest = NoAddr]

\* (the abort flag of a task only matters while the task runs)
\* An aborted task is dropped the next time it is suspended: its future is
\* destroyed, which releases the guards it holds and loses a buffer it has
\* received from the queue but not yet written.
TaskCancel(t) ==
    /\ tasks[t].abort
    /\ Suspended(t)
    /\ tasks' = Finish(t, "cancelled")
    /\ tun_read_owner' = Release(tun_read_owner, t)
    /\ tun_write_owner' = Release(tun_write_owner, t)
    /\ rx_owner' = Release(rx_owner, t)
    /\ lost' = IF tasks[t].kind = "writer" /\ tasks[t].pc = "write"
               THEN Append(lost, tasks[t].buf) ELSE lost
    /\ UNCHANGED <<lifeVars, map_readers, sent, last, connVars,
                   queue, enqueued, tun_written, senders_open, otherVars>>

(***************************************************************************)
(* The connections and the connection map                                  *)
(***************************************************************************)
\* lines 44..49: insert under the map's write guard, which needs every
\* read guard returned
add_connection(ip, c) ==
    /\ senders_open
    /\ map_readers = {}
    /\ active_connections' =
           [i \in DOMAIN active_connections \cup {ip} |->
               IF i = ip THEN c ELSE active_connections[i]]
    /\ active_connections' /= active_connections
    /\ UNCHANGED <<lifeVars, tasks, readerVars, conn_open, conn_mds,
                   writerVars, senders_open, otherVars>>

\* the peer, or the connection's handler, closes a connection
CloseConnection(c) ==
    /\ conn_open[c]
    /\ conn_open' = [conn_open EXCEPT ![c] = FALSE]
    /\ UNCHANGED <<lifeVars, tasks, readerVars, active_connections, conn_mds,
                   writerVars, senders_open, otherVars>>

(***************************************************************************)
(* The reader task: TunWorker::process_incoming_data                       *)
(***************************************************************************)
\* line 104
ReaderLockTun(t) ==
    /\ tasks[t].kind = "reader"
    /\ tasks[t].pc = "lock_tun"
    /\ CanLock(tun_read_owner)
    /\ tun_read_owner' = t
    /\ tasks' = [tasks EXCEPT ![t].pc = "read"]
    /\ UNCHANGED <<lifeVars, map_readers, sent, last, connVars,
                   writerVars, senders_open, otherVars>>

SentCount == Len(sent["cA"]) + Len(sent["cB"])

\* line 107, 109: one read puts at most buffer_size bytes into buf
read_buf(pkt) == Take(pkt, BufferSize)

\* lines 107..120: one packet is read and parsed
ReaderRead(t, pkt) ==
    /\ tasks[t].kind = "reader"
    /\ tasks[t].pc = "read"
    /\ SentCount < MaxSent
    /\ LET buf == read_buf(pkt)
           headers == from_ethernet_slice(buf)
       IN  CASE headers.tag = "Err" ->
                  /\ tasks' = Finish(t, "err")
                  /\ tun_read_owner' = NoTask
                  /\ last' = Logged(t, buf, "parse_err")
             [] headers.tag = "NoIp" ->
                  /\ tasks' = tasks
                  /\ tun_read_owner' = tun_read_owner
                  /\ last' = Logged(t, buf, "no_ip")
             [] OTHER ->
                  /\ tasks' = [tasks EXCEPT ![t].pc = "lock_map",
                                            ![t].buf = buf,
                                            ![t].dest = headers.dest]
                  /\ tun_read_owner' = tun_read_owner
                  /\ last' = last
    /\ UNCHANGED <<lifeVars, map_readers, sent, connVars, writerVars,
                   senders_open, otherVars>>

\* line 109: the read itself fails
ReaderReadFail(t) ==
    /\ tasks[t].kind = "reader"
    /\ tasks[t].pc = "read"
    /\ tasks' = Finish(t, "err")
    /\ tun_read_owner' = NoTask
    /\ UNCHANGED <<lifeVars, map_readers, sent, last, connVars,
                   writerVars, senders_open, otherVars>>

\* line 122: the read guard of the map is taken
ReaderLockMap(t) ==
    /\ tasks[t].kind = "reader"
    /\ tasks[t].pc = "lock_map"
    /\ map_readers' = map_readers \cup {t}
    /\ tasks' = [tasks EXCEPT ![t].pc = "dispatch"]
    /\ UNCHANGED <<lifeVars, tun_read_owner, sent, last, connVars,
                   writerVars, senders_open, otherVars>>

\* lines 124..126
Lookup(dest) ==
    IF dest \in DOMAIN active_connections THEN active_connections[dest]
    ELSE NoConn

\* a reader without the size check of line 135
Oversize_mut(buf, max_datagram_size) == FALSE

\* line 135
Oversize(buf, max_datagram_size) == Len(buf) > max_datagram_size

\* line 144: quinn refuses a datagram on a connection that is closed
\* (SendDatagramError::ConnectionLost) and queues it otherwise
send_datagram_ok(c) == conn_open[c]

\* lines 124..145, which hold no await: what one packet comes to
Outcome(buf, dest) ==
    LET connection == Lookup(dest) IN
    IF connection = NoConn THEN "unknown_dest"
    ELSE IF conn_mds[connection] = NoMds THEN "no_mds"
    ELSE IF Oversize(buf, conn_mds[connection]) THEN "oversize"
    ELSE IF send_datagram_ok(connection) THEN "sent"
    ELSE "send_err"

\* a reader that skips a packet whose connection has no max datagram size
Continues_mut(what) == what \in {"oversize", "sent", "no_mds"}

\* "continue" and the end of the loop body go on; every "?" returns
Continues(what) == what \in {"oversize", "sent"}

ReaderDispatch(t) ==
    /\ tasks[t].kind = "reader"
    /\ tasks[t].pc = "dispatch"
    /\ LET buf == tasks[t].buf
           what == Outcome(buf, tasks[t].dest)
       IN  /\ sent' = IF what = "sent"
                      THEN [sent EXCEPT ![Lookup(tasks[t].dest)] =
                                            Append(@, buf)]
                      ELSE sent
           /\ last' = Logged(t, buf, what)
           /\ IF Continues(what)
              THEN /\ tasks' = [tasks EXCEPT ![t].pc = "read",
                                             ![t].buf = <<>>,
                                             ![t].dest = NoAddr]
                   /\ tun_read_owner' = tun_read_owner
              ELSE /\ tasks' = Finish(t, "err")
                   /\ tun_read_owner' = NoTask
    /\ map_readers' = map_readers \ {t}
    /\ UNCHANGED <<lifeVars, connVars, writerVars, senders_open, otherVars>>

(***************************************************************************)
(* The write queue and the writer task: TunWorker::process_outgoing_data   *)
(***************************************************************************)
Producers == {1, 2}

\* UnboundedSender::send on a clone handed out by get_tun_sender.  The
\* buffer names its producer and its place in the enqueue order, so that no
\* two enqueued buffers are equal.
Enqueue(p) ==
    /\ senders_open
    /\ Len(enqueued) < MaxEnq
    /\ LET buf == <<p, Len(enqueued) + 1>> IN
       /\ queue' = Append(queue, buf)
       /\ enqueued' = Append(enqueued, buf)
    /\ UNCHANGED <<lifeVars, tasks, readerVars, connVars, tun_write_owner,
                   rx_owner, tun_written, lost, senders_open, otherVars>>

\* The worker and every clone of its sender are dropped.  The JoinHandles
\* go with the worker, which detaches the tasks and does not abort them.
DropSenders ==
    /\ senders_open
    /\ senders_open' = FALSE
    /\ reader_task' = NoTask
    /\ writer_task' = NoTask
    /\ UNCHANGED <<tasks, readerVars, connVars, writerVars, otherVars>>

\* line 152
WriterLockTun(t) ==
    /\ tasks[t].kind = "writer"
    /\ tasks[t].pc = "lock_tun"
    /\ CanLock(tun_write_owner)
    /\ tun_write_owner' = t
    /\ tasks' = [tasks EXCEPT ![t].pc = "lock_rx"]
    /\ UNCHANGED <<lifeVars, readerVars, connVars, rx_owner, queue, enqueued,
                   tun_written, lost, senders_open, otherVars>>

\* line 153
WriterLockRx(t) ==
    /\ tasks[t].kind = "writer"
    /\ tasks[t].pc = "lock_rx"
    /\ CanLock(rx_owner)
    /\ rx_owner' = t
    /\ tasks' = [tasks EXCEPT ![t].pc = "recv"]
    /\ UNCHANGED <<lifeVars, readerVars, connVars, tun_write_owner, queue,
                   enqueued, tun_written, lost, senders_open, otherVars>>

\* a channel that never reports that its senders are gone
RecvReady_mut == queue /= <<>>

\* UnboundedReceiver::recv: the oldest buffer; None once the queue is empty
\* and every sender is gone; pending otherwise
RecvReady == queue /= <<>> \/ ~senders_open

\* a channel that hands out the newest buffer first
Oldest_mut(q) == q[Len(q)]

Oldest(q) == Head(q)

Without(q, b) == SelectSeq(q, LAMBDA x : x /= b)

\* lines 156..159, and line 164 after the break
WriterRecv(t) ==
    /\ tasks[t].kind = "writer"
    /\ tasks[t].pc = "recv"
    /\ RecvReady
    /\ IF queue /= <<>>
       THEN /\ tasks' = [tasks EXCEPT ![t].pc = "write",
                                      ![t].buf = Oldest(queue)]
            /\ queue' = Without(queue, Oldest(queue))
            /\ UNCHANGED <<tun_write_owner, rx_owner>>
       ELSE /\ tasks' = Finish(t, "ok")
            /\ queue' = queue
            /\ tun_write_owner' = NoTask
            /\ rx_owner' = NoTask
    /\ UNCHANGED <<lifeVars, readerVars, connVars, enqueued, tun_written,
                   lost, senders_open, otherVars>>

\* line 161: write_all hands the buffer to the device, which takes one
\* packet per write
WriterWrite(t) ==
    /\ tasks[t].kind = "writer"
    /\ tasks[t].pc = "write"
    /\ tun_written' = Append(tun_written, tasks[t].buf)
    /\ tasks' = [tasks EXCEPT ![t].pc = "recv", ![t].buf = <<>>]
    /\ UNCHANGED <<lifeVars, readerVars, connVars, tun_write_owner, rx_owner,
                   queue, enqueued, lost, senders_open, otherVars>>

\* line 161: the device refuses the write; "?" returns the error
WriterWriteFail(t) ==
    /\ tasks[t].kind = "writer"
    /\ tasks[t].pc = "write"
    /\ tasks' = Finish(t, "err")
    /\ lost' = Append(lost, tasks[t].buf)
    /\ tun_write_owner' = NoTask
    /\ rx_owner' = NoTask
    /\ UNCHANGED <<lifeVars, readerVars, connVars, queue, enqueued,
                   tun_written, senders_open, otherVars>>

(***************************************************************************)
(* Auth: authenticate, verify_session_token and reset.  The session set of *)
(* a User (new_session, check_session_validity, reset) is kept by          *)
(* auth/user.rs; it is modelled as the design describes it: a set of       *)
(* tokens, each inserted by new_session and none evicted but by reset.     *)
(***************************************************************************)
\* a lookup that falls back to the first user when the name is unknown
GetUser_mut(username) ==
    IF username \in DOMAIN users THEN username ELSE "alice"

\* lines 64..67 and 92..95: self.users.get(username)
GetUser(username) ==
    IF username \in DOMAIN users THEN username ELSE NoUser

\* line 68: PasswordHash::new accepts a PHC string only
PasswordHashNew(h) == Len(h) = 3 /\ h[1] = "$argon2id"

\* lines 72..74: the password is hashed with the salt of the stored hash
\* and the digests are compared
verify_password(password, h) == Digest(h[2], password) = h[3]

\* User::new_session: a token drawn from the generator, which never gives
\* the same token twice
new_session == next_token + 1

\* User::check_session_validity
check_session_validity(user, token) == token \in sessions[user]

\* lines 64..74: what authenticate comes to before it issues a token
AuthResult(username, password) ==
    LET user == GetUser(username) IN
    IF user = NoUser THEN "unknown_user"
    ELSE IF ~PasswordHashNew(users[user]) THEN "malformed_hash"
    ELSE IF ~verify_password(password, users[user]) THEN "bad_credentials"
    ELSE "ok"

Called(op, username, token, result) ==
    [op |-> op, username |-> username, token |-> token, result |-> result]

\* lines 63..77
authenticate(username, password) ==
    /\ LET result == AuthResult(username, password)
           token == new_session
       IN  IF result = "ok"
           THEN /\ next_token < MaxTokens
                /\ next_token' = token
                /\ sessions' = [sessions EXCEPT ![GetUser(username)] =
                                                    @ \cup {token}]
                /\ issued' = issued \cup
                       {[username |-> username, token |-> token,
                         started |-> resets_started, done |-> resets_done]}
                /\ auth_last' = Called("authenticate", username, token, "ok")
           ELSE /\ UNCHANGED <<next_token, sessions, issued>>
                /\ auth_last' =
                       Called("authenticate", username, NoToken, result)
    /\ UNCHANGED <<reset_todo, resets_started, resets_done, tunVars,
                   serverVars>>

\* a check that looks for the token in every user's session set
verify_session_token_mut(username, session_token) ==
    IF \E u \in DOMAIN users : check_session_validity(u, session_token)
    THEN "true" ELSE "false"

\* lines 87..98: Err for an unknown user, Ok(bool) otherwise
verify_session_token(username, session_token) ==
    LET user == GetUser(username) IN
    IF user = NoUser THEN "err"
    ELSE IF check_session_validity(user, session_token) THEN "true"
    ELSE "false"

\* a call of verify_session_token: it reads the session set of one user
\* and changes nothing
VerifySessionToken(username, session_token) ==
    /\ verify_session_token(username, session_token) \in
           {"err", "true", "false"}
    /\ UNCHANGED vars

\* a loop that misses an entry of the map
ResetTargets_mut == DOMAIN users \ {"bob"}

\* line 102: self.users.iter() visits every entry, in the map's order
ResetTargets == DOMAIN users

\* reset is called: the loop of line 102 begins
reset_begin ==
    /\ resets_started = resets_done
    /\ resets_started < MaxResets
    /\ resets_started' = resets_started + 1
    /\ reset_todo' = ResetTargets
    /\ UNCHANGED <<sessions, next_token, issued, resets_done, auth_last,
                   tunVars, serverVars>>

\* line 103: entry.value().reset() clears the session set of one user
reset_entry(u) ==
    /\ u \in reset_todo
    /\ reset_todo' = reset_todo \ {u}
    /\ sessions' = [sessions EXCEPT ![u] = {}]
    /\ UNCHANGED <<next_token, issued, resets_started, resets_done,
                   auth_last, tunVars, serverVars>>

\* line 105: reset returns
reset_end ==
    /\ resets_started > resets_done
    /\ reset_todo = {}
    /\ resets_done' = resets_done + 1
    /\ auth_last' = Called("reset", NoUser, NoToken, "ok")
    /\ UNCHANGED <<sessions, next_token, issued, reset_todo, resets_started,
                   tunVars, serverVars>>

(***************************************************************************)
(* QuincyServer::run.  A tunnel's start(), stop() and is_ok() are kept by  *)
(* server/tunnel.rs; they are modelled as the design describes them: start *)
(* and stop may fail, a started tunnel may crash, and is_ok() is true      *)
(* until the tunnel has crashed and again once it has been started.        *)
(***************************************************************************)
\* QuincyTunnel::start: on success the tunnel is up and healthy
tunnel_start(flags, n, res) ==
    IF res = "ok" THEN [flags EXCEPT ![n] = TRUE] ELSE flags

\* QuincyTunnel::stop: on success the tunnel is down
tunnel_stop(flags, n, res) ==
    IF res = "ok" THEN [flags EXCEPT ![n] = FALSE] ELSE flags

\* QuincyTunnel::is_ok
is_ok(n) == tunnel_ok[n]

\* one of the tasks of a started tunnel ends abnormally
TunnelCrash(n) ==
    /\ tunnel_up[n]
    /\ tunnel_ok[n]
    /\ tunnel_ok' = [tunnel_ok EXCEPT ![n] = FALSE]
    /\ UNCHANGED <<run_pc, run_todo, tunnel_up, tick_log, ticks, tunVars,
                   authVars>>

\* a "?" that lets the error go
Try_mut(res) == FALSE

\* the "?" of lines 43, 56 and 57: an Err returns from run
Try(res) == res = "err"

LogCall(n, call, res) ==
    Append(tick_log, [tunnel |-> n, call |-> call, result |-> res])

\* where run goes once it is done with the tunnel at the head of run_todo
AfterTunnel == IF Tail(run_todo) = <<>> THEN "sleep" ELSE "check"

\* line 40: the first for loop begins
run_begin(o) ==
    /\ run_pc = "new"
    /\ run_pc' = "starting"
    /\ run_todo' = o
    /\ UNCHANGED <<tunnel_up, tunnel_ok, tick_log, ticks, tunVars, authVars>>

\* lines 40..44: tunnel.start().await? on the next tunnel; after the last
\* one, line 46
run_start(res) ==
    /\ run_pc = "starting"
    /\ LET n == Head(run_todo) IN
       /\ tunnel_up' = tunnel_start(tunnel_up, n, res)
       /\ tunnel_ok' = tunnel_start(tunnel_ok, n, res)
       /\ tick_log' = LogCall(n, "start", res)
    /\ IF Try(res)
       THEN run_pc' = "returned" /\ run_todo' = run_todo
       ELSE /\ run_todo' = Tail(run_todo)
            /\ run_pc' = IF Tail(run_todo) = <<>> THEN "loop" ELSE "starting"
    /\ UNCHANGED <<ticks, tunVars, authVars>>

\* line 47: a pass of the loop begins
tick_begin(o) ==
    /\ run_pc = "loop"
    /\ ticks < MaxTicks
    /\ ticks' = ticks + 1
    /\ run_pc' = "check"
    /\ run_todo' = o
    /\ tick_log' = <<>>
    /\ UNCHANGED <<tunnel_up, tunnel_ok, tunVars, authVars>>

\* lines 48..55: is_ok() of the next tunnel; a healthy one is passed over
tick_check ==
    /\ run_pc = "check"
    /\ LET n == Head(run_todo) IN
       IF is_ok(n)
       THEN /\ tick_log' = LogCall(n, "is_ok", "true")
            /\ run_todo' = Tail(run_todo)
            /\ run_pc' = AfterTunnel
       ELSE /\ tick_log' = LogCall(n, "is_ok", "false")
            /\ run_todo' = run_todo
            /\ run_pc' = "stop"
    /\ UNCHANGED <<tunnel_up, tunnel_ok, ticks, tunVars, authVars>>

\* line 56: tunnel.stop().await?
tick_stop(res) ==
    /\ run_pc = "stop"
    /\ LET n == Head(run_todo) IN
       /\ tunnel_up' = tunnel_stop(tunnel_up, n, res)
       /\ tick_log' = LogCall(n, "stop", res)
    /\ run_pc' = IF Try(res) THEN "returned" ELSE "start"
    /\ UNCHANGED <<run_todo, tunnel_ok, ticks, tunVars, authVars>>

\* line 57: tunnel.start().await?
tick_start(res) ==
    /\ run_pc = "start"
    /\ LET n == Head(run_todo) IN
       /\ tunnel_up' = tunnel_start(tunnel_up, n, res)
       /\ tunnel_ok' = tunnel_start(tunnel_ok, n, res)
       /\ tick_log' = LogCall(n, "start", res)
    /\ IF Try(res)
       THEN run_pc' = "returned" /\ run_todo' = run_todo
       ELSE run_pc' = AfterTunnel /\ run_todo' = Tail(run_todo)
    /\ UNCHANGED <<ticks, tunVars, authVars>>

\* line 60: the sleep of one second is over
run_sleep ==
    /\ run_pc = "sleep"
    /\ run_pc' = "loop"
    /\ UNCHANGED <<run_todo, tunnel_up, tunnel_ok, tick_log, ticks, tunVars,
                   authVars>>

(***************************************************************************)
(* Specifications.  The reader and the writer share no state but the       *)
(* worker's two handles: the reader works on tun_read, the connection map  *)
(* and the connections, the writer on tun_write and the write queue.       *)
(*   Spec        start/stop and both tasks, on few inputs                  *)
(*   SpecReader  one run of the reader task, on every packet; the writer   *)
(*               task is spawned and stays before its first step           *)
(*   SpecWriter  start/stop and the writer task, with every producer; the  *)
(*               reader tasks are spawned and stay before their first step *)
(***************************************************************************)
LifeStep ==
    \/ start_workers_ok
    \/ start_workers_err
    \/ stop_workers_ok
    \/ stop_workers_err

CancelStep(ts) == \E t \in ts : TaskCancel(t)

ReaderTaskStep(packets) ==
    \/ \E t \in TaskIds : ReaderLockTun(t)
    \/ \E t \in TaskIds, pkt \in packets : ReaderRead(t, pkt)
    \/ \E t \in TaskIds : ReaderReadFail(t)
    \/ \E t \in TaskIds : ReaderLockMap(t)
    \/ \E t \in TaskIds : ReaderDispatch(t)

ConnStep ==
    \/ \E ip \in Ips, c \in Conns : add_connection(ip, c)
    \/ \E c \in Conns : CloseConnection(c)

WriterTaskStep ==
    \/ \E t \in TaskIds : WriterLockTun(t)
    \/ \E t \in TaskIds : WriterLockRx(t)
    \/ \E t \in TaskIds : WriterRecv(t)
    \/ \E t \in TaskIds : WriterWrite(t)
    \/ \E t \in TaskIds : WriterWriteFail(t)

Next ==
    \/ LifeStep
    \/ CancelStep(TaskIds)
    \/ ReaderTaskStep({PktPlainToB, PktToNobody})
    \/ Enqueue(1)
    \/ WriterTaskStep

Spec == Init /\ [][Next]_vars

NextReader == start_workers_ok \/ ReaderTaskStep(Packets) \/ ConnStep

SpecReader == Init /\ [][NextReader]_vars

\* the reader task across restarts of the workers, on packets that parse
NextRestart ==
    \/ LifeStep
    \/ CancelStep(Readers)
    \/ ReaderTaskStep({PktToA, PktToB})
    \/ ConnStep

SpecRestart == Init /\ [][NextRestart]_vars

\* the steps of the reader task that wait for nothing but the executor:
\* taking a lock that is free and running lines 124..145, which hold no
\* await.  The arrival of a packet and a read error are steps of the
\* device, which may stay idle for ever.
ReaderExecutorStep ==
    \E t \in TaskIds :
        ReaderLockTun(t) \/ ReaderLockMap(t) \/ ReaderDispatch(t)

\* the executor does not stop while the reader task can go on
FairReader == WF_vars(ReaderExecutorStep)

SpecReaderFair == SpecReader /\ FairReader

NextWriter ==
    \/ LifeStep
    \/ CancelStep(Writers)
    \/ \E p \in Producers : Enqueue(p)
    \/ DropSenders
    \/ WriterTaskStep

SpecWriter == Init /\ [][NextWriter]_vars

\* the executor does not stop while some task can go on: a writer task
\* takes a lock that is free or receives from the channel, or a task that
\* was aborted is dropped.  The completion of write_all is a step of the
\* device, which may never take the buffer.
SomeTaskStep ==
    \/ \E t \in TaskIds :
           WriterLockTun(t) \/ WriterLockRx(t) \/ WriterRecv(t)
    \/ CancelStep(Writers)

\* the device ends every write it was handed, taking the buffer or failing
DeviceStep == \E t \in TaskIds : WriterWrite(t) \/ WriterWriteFail(t)

FairWriter == WF_vars(SomeTaskStep)

SpecWriterFair == SpecWriter /\ FairWriter

\* the calls on Auth, from any number of connection handlers; a reset runs
\* entry by entry while other calls go on
NextAuth ==
    \/ \E u \in Usernames, p \in Passwords : authenticate(u, p)
    \/ \E u \in Usernames, t \in 1 .. MaxTokens : VerifySessionToken(u, t)
    \/ reset_begin
    \/ \E u \in DOMAIN users : reset_entry(u)
    \/ reset_end

SpecAuth == Init /\ [][NextAuth]_vars

\* QuincyServer::run and what happens to its tunnels meanwhile
NextServer ==
    \/ \E o \in Orders : run_begin(o)
    \/ \E res \in Results : run_start(res)
    \/ \E o \in Orders : tick_begin(o)
    \/ tick_check
    \/ \E res \in Results : tick_stop(res)
    \/ \E res \in Results : tick_start(res)
    \/ run_sleep
    \/ \E n \in Tunnels : TunnelCrash(n)

SpecServer == Init /\ [][NextServer]_vars

(***************************************************************************)
(* Properties of start_workers and stop_workers (checked under Spec)       *)
(***************************************************************************)
\* reader tasks inside the loop of process_incoming_data: past line 104,
\* they own the read half of the device
ReadingTun ==
    {t \in Readers : tasks[t].pc \in {"read", "lock_map", "dispatch"}}

\* writer tasks past line 152: they own the write half of the device
WritingTun ==
    {t \in Writers : tasks[t].pc \in {"lock_rx", "recv", "write"}}

\* C1: in every reachable state, whatever the interleaving of
\* start_workers, stop_workers and the tasks' own steps, at most one reader
\* task is reading the TUN device and at most one writer task is writing it.
C1_OneReaderOneWriter ==
    /\ Cardinality(ReadingTun) <= 1
    /\ Cardinality(WritingTun) <= 1

\* C1's case: stop_workers then start_workers, while the aborted reader is
\* still in its read and the aborted writer still in its write; the new
\* tasks wait for the locks.
C1_Witness ==
    \E r1, r2 \in Readers, w1, w2 \in Writers :
        /\ tasks[r1].abort /\ tasks[r1].pc = "read"
        /\ reader_task = r2 /\ tasks[r2].pc = "lock_tun"
        /\ tasks[w1].abort /\ tasks[w1].pc = "write"
        /\ writer_task = w2 /\ tasks[w2].pc = "lock_tun"

\* C2: a step that spawns tasks starts from a worker that is not started,
\* spawns exactly one reader task and one writer task, both at the start of
\* their bodies, and stores their handles; while the worker is started no
\* task is spawned and each handle keeps its value until it is cleared; and
\* a worker that is not started can be started.
C2_StartWorkers ==
    /\ [][Len(tasks') /= Len(tasks) =>
            /\ reader_task = NoTask
            /\ Len(tasks') = Len(tasks) + 2
            /\ SubSeq(tasks', 1, Len(tasks)) = tasks
            /\ reader_task' = Len(tasks) + 1
            /\ writer_task' = Len(tasks) + 2
            /\ tasks'[reader_task'] = NewTask("reader")
            /\ tasks'[writer_task'] = NewTask("writer")]_vars
    /\ [][reader_task /= NoTask =>
            /\ Len(tasks') = Len(tasks)
            /\ reader_task' \in {reader_task, NoTask}
            /\ writer_task' \in {writer_task, NoTask}]_vars
    /\ [](senders_open /\ reader_task = NoTask /\ Len(tasks) < 2 * MaxStarts
            => ENABLED start_workers_ok)

\* C2's case: the worker has been started a second time
C2_Witness ==
    /\ Len(tasks) = 4
    /\ reader_task = 3
    /\ writer_task = 4

\* C3: a step that clears the reader handle of a started worker clears the
\* writer handle too and leaves both tasks aborted (or already finished);
\* while the worker is not started no task is aborted and no handle changes
\* but by a start.
C3_StopWorkers ==
    /\ [][reader_task /= NoTask /\ reader_task' = NoTask =>
            /\ writer_task /= NoTask
            /\ writer_task' = NoTask
            /\ \A t \in {reader_task, writer_task} :
                   tasks'[t].abort \/ tasks[t].pc = "done"]_vars
    /\ [][reader_task = NoTask =>
            /\ \A t \in TaskIds : tasks'[t].abort => tasks[t].abort
            /\ \/ reader_task' = NoTask /\ writer_task' = NoTask
               \/ Len(tasks') = Len(tasks) + 2]_vars

\* C3's case: the worker has been stopped and both tasks are marked
C3_Witness ==
    /\ reader_task = NoTask
    /\ writer_task = NoTask
    /\ \E r \in Readers, w \in Writers : tasks[r].abort /\ tasks[w].abort

(***************************************************************************)
(* Properties of the reader task (checked under SpecReader)                *)
(***************************************************************************)
\* the step in which reader t is done with a packet at line 111..115: the
\* packet did not parse, or has no IP header
DoneAtParse(t) ==
    /\ tasks[t].pc = "read"
    /\ last' /= last
    /\ last'.task = t

\* the step in which reader t runs lines 124..145 on the packet it holds
DoneAtDispatch(t) ==
    /\ tasks[t].pc = "dispatch"
    /\ tasks'[t].pc /= "dispatch"

\* the packet can go out on connection c
Fits(buf, c) == conn_mds[c] /= NoMds /\ Len(buf) <= conn_mds[c]

\* exactly one datagram, buf, is sent in this step, on connection c
SendsOnly(buf, c) == sent' = [sent EXCEPT ![c] = Append(@, buf)]

\* the connection registered for the destination address of a bare IP packet
Registered(buf) ==
    IF L3Dest(buf) \in DOMAIN active_connections
    THEN active_connections[L3Dest(buf)] ELSE NoConn

\* C4: for every packet the reader is done with, if the packet's
\* destination address is a key of the connection map and the packet is no
\* longer than that connection's max datagram size, then exactly one
\* datagram, the packet, has been sent on that connection and none on any
\* other.
C4_RoutedByDestination ==
    [][\A t \in Readers :
          /\ DoneAtParse(t) =>
                LET c == Registered(last'.buf) IN
                c /= NoConn /\ Fits(last'.buf, c) => SendsOnly(last'.buf, c)
          /\ DoneAtDispatch(t) =>
                LET c == Registered(tasks[t].buf) IN
                c /= NoConn /\ Fits(tasks[t].buf, c)
                    => SendsOnly(tasks[t].buf, c)]_vars

\* C5: a packet longer than the max datagram size of the connection the
\* reader found for it is not passed to send_datagram, no datagram is sent
\* in that step, and the reader is back at its read, still running; and
\* every datagram a connection ever took is a whole buffer read from the
\* device, no longer than that connection's max datagram size.
C5_OversizeDropped ==
    /\ [][\A t \in Readers :
            LET c == Lookup(tasks[t].dest) IN
            (/\ DoneAtDispatch(t)
             /\ c /= NoConn
             /\ conn_mds[c] /= NoMds
             /\ Len(tasks[t].buf) > conn_mds[c])
            => /\ sent' = sent
               /\ last'.outcome \notin {"sent", "send_err"}
               /\ tasks'[t].pc = "read"
               /\ tasks'[t].result = "none"
               /\ tun_read_owner' = t]_vars
    /\ [](\A c \in Conns : \A i \in 1 .. Len(sent[c]) :
            /\ sent[c][i] \in {read_buf(pkt) : pkt \in Packets}
            /\ Fits(sent[c][i], c))

\* C5's case: the reader dropped an oversize packet and has since read the
\* next packet, which it is about to dispatch
C5_Witness ==
    \E t \in Readers :
        /\ last.task = t
        /\ last.outcome = "oversize"
        /\ last.buf = PktBigToA
        /\ tasks[t].pc = "dispatch"
        /\ tasks[t].buf = PktToA

\* C6: when the destination address of the packet is not a key of the
\* connection map, no datagram is sent and the reader is back at its read,
\* still running.
C6_UnknownDestinationDropped ==
    [][\A t \in Readers :
          DoneAtDispatch(t) /\ Lookup(tasks[t].dest) = NoConn
          => /\ sent' = sent
             /\ tasks'[t].pc = "read"
             /\ tasks'[t].result = "none"]_vars

\* C7: when the packet is malformed or has no IP header, no datagram is
\* sent and the reader is back at its read, still running.
C7_MalformedDropped ==
    [][\A t \in Readers :
          DoneAtParse(t)
          /\ from_ethernet_slice(last'.buf).tag \in {"Err", "NoIp"}
          => /\ sent' = sent
             /\ tasks'[t].pc = "read"
             /\ tasks'[t].result = "none"]_vars

\* C8: when send_datagram fails because the destination connection is
\* closed, no datagram is sent and the reader is back at its read, still
\* running.
C8_ClosedConnectionDropped ==
    [][\A t \in Readers :
          LET c == Lookup(tasks[t].dest) IN
          (/\ DoneAtDispatch(t)
           /\ c /= NoConn
           /\ Fits(tasks[t].buf, c)
           /\ ~conn_open[c])
          => /\ sent' = sent
             /\ tasks'[t].pc = "read"
             /\ tasks'[t].result = "none"]_vars

(***************************************************************************)
(* Properties of the writer task (checked under SpecWriter and, for        *)
(* termination, under SpecWriterFair)                                      *)
(***************************************************************************)
IsPrefix(a, b) == Len(a) <= Len(b) /\ a = SubSeq(b, 1, Len(a))

Range(q) == {q[i] : i \in 1 .. Len(q)}

FinishedOk == {t \in Writers : tasks[t].pc = "done" /\ tasks[t].result = "ok"}

\* the buffers writer tasks have received and are about to write
Held == {tasks[t].buf : t \in {w \in Writers : tasks[w].pc = "write"}}

\* the buffers received from the queue so far, in enqueue order
Received == SubSeq(enqueued, 1, Len(enqueued) - Len(queue))

\* C9 as stated: the buffers written to the device are at every moment a
\* prefix of the buffers enqueued, and once a writer task has run to
\* completion every enqueued buffer has been written exactly once.
C9_WrittenIsPrefix ==
    /\ IsPrefix(tun_written, enqueued)
    /\ FinishedOk /= {} => tun_written = enqueued

\* C9 amended: the queue holds the buffers not yet received, in enqueue
\* order; the buffers written are, in enqueue order and each once, the
\* received ones but the one a writer holds and those lost when a writer
\* task was aborted or failed between receiving and writing; so they are a
\* prefix of the enqueued ones as long as none is lost, and all of them
\* once a writer task has returned Ok with none lost.
C9_WrittenInOrder ==
    /\ queue = SubSeq(enqueued, Len(enqueued) - Len(queue) + 1, Len(enqueued))
    /\ tun_written =
           SelectSeq(Received, LAMBDA b : b \notin Range(lost) \cup Held)
    /\ lost = <<>> => IsPrefix(tun_written, enqueued)
    /\ FinishedOk /= {} /\ lost = <<>> => tun_written = enqueued

\* C9's case: both producers have enqueued, the writer has written both
\* buffers and has returned Ok after the senders were dropped
C9_Witness ==
    /\ FinishedOk /= {}
    /\ Len(tun_written) = 2
    /\ {tun_written[1][1], tun_written[2][1]} = Producers

\* C10 as stated: once every sender is gone, no writer task has ended with
\* an error and a writer task that has ended by itself has left the queue
\* empty.
C10_ClosedEndsOk ==
    \A t \in Writers :
        ~senders_open /\ tasks[t].pc = "done" /\ tasks[t].result /= "cancelled"
        => tasks[t].result = "ok" /\ queue = <<>>

\* a writer task that runs and has not been aborted
Running(t) ==
    /\ t \in Writers
    /\ tasks[t].pc /= "done"
    /\ ~tasks[t].abort

Ended(t, res) ==
    /\ t \in Writers
    /\ tasks[t].pc = "done"
    /\ tasks[t].result = res

\* C10 amended: if the device ends every write it is handed, then once
\* every sender is gone a writer task that has not been aborted eventually
\* ends, with Ok or with the error of a failed write to the device; it
\* returns Ok only when every sender is gone and the queue is empty, all
\* buffers having been written or lost as C9 says, and it returns an error
\* only after a buffer was lost.
C10_ClosedTerminates ==
    /\ WF_vars(DeviceStep)
           => (~senders_open ~> (\A t \in Writers : ~Running(t)))
    /\ [][\A t \in Writers :
            ~senders_open /\ Running(t) /\ ~Running(t)'
            => Ended(t, "ok")' \/ Ended(t, "err")']_vars
    /\ [](\A t \in Writers :
            /\ Ended(t, "ok") =>
                  /\ ~senders_open
                  /\ queue = <<>>
                  /\ Range(enqueued) = Range(tun_written) \cup Range(lost)
            /\ Ended(t, "err") => lost /= <<>>)

\* C10's case: buffers were still queued when the senders went away, and
\* the writer has written them and returned Ok
C10_Witness ==
    /\ ~senders_open
    /\ FinishedOk /= {}
    /\ tun_written = enqueued
    /\ Len(tun_written) = MaxEnq

(***************************************************************************)
(* Properties of Auth (checked under SpecAuth)                             *)
(***************************************************************************)
\* the step is a call of authenticate with this username
AuthenticateCalled(username) ==
    /\ auth_last' /= auth_last
    /\ auth_last'.op = "authenticate"
    /\ auth_last'.username = username

\* C14: a call of authenticate with a username that is no key of the user
\* map fails, whatever the password: it returns no token, draws none and
\* leaves every user's session set as it was.
C14_UnknownUserRejected ==
    [][\A username \in Usernames \ DOMAIN users :
          AuthenticateCalled(username)
          => /\ auth_last'.result /= "ok"
             /\ auth_last'.token = NoToken
             /\ next_token' = next_token
             /\ issued' = issued
             /\ sessions' = sessions]_vars

\* C14's case: tokens have been issued to a known user, and the last call
\* was an authenticate for the unknown user eve, which failed
C14_Witness ==
    /\ auth_last.op = "authenticate"
    /\ auth_last.username = "eve"
    /\ auth_last.result = "unknown_user"
    /\ sessions["alice"] /= {}

\* the tokens issued while no reset was running, with no reset begun since
IssuedSinceReset ==
    {r \in issued : r.started = r.done /\ r.started = resets_started}

\* the tokens issued before a reset began that has returned by now
IssuedBeforeReset == {r \in issued : r.started < resets_done}

\* C15: a token returned by authenticate(u, p), while no reset has happened
\* since, verifies for u and fails to verify for every other user.
C15_TokenValidPerUser ==
    \A r \in IssuedSinceReset :
        /\ verify_session_token(r.username, r.token) = "true"
        /\ \A other \in DOMAIN users \ {r.username} :
               verify_session_token(other, r.token) = "false"

\* C15's case: alice and bob each hold a token issued since the last reset,
\* which has returned
C15_Witness ==
    /\ resets_done = 1
    /\ \E ra, rb \in IssuedSinceReset :
           ra.username = "alice" /\ rb.username = "bob"

\* C16: once a reset has returned, no token issued before that reset began
\* verifies for any user, whatever calls came before and come after.
C16_ResetClearsSessions ==
    \A r \in IssuedBeforeReset :
        \A u \in DOMAIN users : verify_session_token(u, r.token) = "false"

\* C16's case: alice and bob held tokens before a reset that has returned,
\* and a token issued after it is valid
C16_Witness ==
    /\ \E ra, rb \in IssuedBeforeReset :
           ra.username = "alice" /\ rb.username = "bob"
    /\ \E r \in issued : verify_session_token(r.username, r.token) = "true"

(***************************************************************************)
(* Properties of QuincyServer::run (checked under SpecServer)              *)
(***************************************************************************)
\* the tunnels the calls of the current pass were made on
Reached == {tick_log[i].tunnel : i \in 1 .. Len(tick_log)}

\* the step is a call that returned an error
CallFailed ==
    /\ Len(tick_log') = Len(tick_log) + 1
    /\ tick_log'[Len(tick_log')].result = "err"

\* C11: during the first loop the tunnels are started one at a time, each
\* once; a start that fails makes run return in that very step, before the
\* loop of line 46 is entered; after that return nothing is started any
\* more, so the tunnels the loop had not reached stay down and no pass of
\* the health check ever begins.
C11_StartFailureReturns ==
    /\ [][run_pc = "starting" /\ CallFailed
            => run_pc' = "returned" /\ ticks' = 0]_vars
    /\ [](run_pc \in {"starting", "returned"} /\ ticks = 0 =>
            /\ Len(tick_log) = Cardinality(Reached)
            /\ \A i \in 1 .. Len(tick_log) :
                   /\ tick_log[i].call = "start"
                   /\ tick_log[i].result = "err"
                          => i = Len(tick_log) /\ run_pc = "returned"
            /\ \A n \in Tunnels \ Reached : ~tunnel_up[n])
    /\ [][run_pc = "returned"
            => /\ run_pc' = "returned"
               /\ ticks' = ticks
               /\ tick_log' = tick_log
               /\ tunnel_up' = tunnel_up]_vars

\* C11's case: the first tunnel was started, the start of the second one
\* failed, and run has returned with the third tunnel never started
C11_Witness ==
    /\ run_pc = "returned"
    /\ ticks = 0
    /\ Len(tick_log) = 2
    /\ tick_log[1].result = "ok"
    /\ tick_log[2].result = "err"
    /\ \E n \in Tunnels \ Reached : ~tunnel_up[n]

\* C12: when the stop() or the start() of an unhealthy tunnel fails during
\* a pass, run does not return: it goes on with that pass, and no other
\* tunnel is touched by the step.
C12_RestartFailureSurvived ==
    [][CallFailed /\ run_pc \in {"stop", "start"}
          => /\ run_pc' /= "returned"
             /\ (\A n \in Tunnels \ {Head(run_todo)} :
                    tunnel_up'[n] = tunnel_up[n])]_vars

\* the calls made on tunnel n, in order, as <<call, result>>
CallsOn(log, n) ==
    LET mine == SelectSeq(log, LAMBDA c : c.tunnel = n)
    IN  [i \in 1 .. Len(mine) |-> <<mine[i].call, mine[i].result>>]

\* C13: when a pass of the health check ends, every tunnel has been asked
\* is_ok() once; a tunnel that answered true has been neither stopped nor
\* started in that pass, and a tunnel that answered false has been stopped
\* and then started, in that order.
C13_UnhealthyRestarted ==
    [][/\ run_pc \in {"check", "stop", "start"}
       /\ run_pc' \in {"sleep", "returned"}
       => \A n \in Tunnels :
            LET calls == CallsOn(tick_log', n) IN
            \/ calls = << <<"is_ok", "true">> >>
            \/ /\ Len(calls) = 3
               /\ calls[1] = <<"is_ok", "false">>
               /\ calls[2][1] = "stop"
               /\ calls[3][1] = "start"]_vars

(***************************************************************************)
(* Properties of the connection map and of the reader task across          *)
(* restarts (checked under SpecReader and SpecRestart)                     *)
(***************************************************************************)
\* C17: every entry of the connection map belongs to a connection that is
\* still open, and the connection the reader finds for a packet is open.
C17_MapEntriesOpen ==
    /\ \A ip \in DOMAIN active_connections :
           conn_open[active_connections[ip]]
    /\ \A t \in Readers :
           tasks[t].pc = "dispatch" /\ Lookup(tasks[t].dest) /= NoConn
           => conn_open[Lookup(tasks[t].dest)]

\* reader t has returned an error
Failed(t) == tasks[t].pc = "done" /\ tasks[t].result = "err"

\* the step in which a reader ends on a connection with no max datagram
\* size: it sends nothing and returns the error, giving up the device
NoMdsEndsReader ==
    \A t \in Readers :
        LET c == Lookup(tasks[t].dest) IN
        DoneAtDispatch(t) /\ c /= NoConn /\ conn_mds[c] = NoMds
        => /\ sent' = sent
           /\ Failed(t)'
           /\ last'.outcome = "no_mds"
           /\ tun_read_owner' = NoTask

\* the worker's reader task has ended on a connection with no max datagram
\* size, and the workers have not been started again since
FailedOnNoMds ==
    /\ reader_task /= NoTask
    /\ Failed(reader_task)
    /\ last.task = reader_task
    /\ last.outcome = "no_mds"

\* C18 as stated: when the connection found for a packet reports no max
\* datagram size, the reader task ends with an error in that step and sends
\* nothing; and from then on, as long as the workers have not been started
\* again, no datagram is sent to any connection.
C18_NothingForwardedAfterFailure ==
    /\ [][NoMdsEndsReader]_vars
    /\ [][FailedOnNoMds => sent' = sent]_vars

\* C18 amended: when the connection found for a packet reports no max
\* datagram size, the reader task ends with an error in that step and sends
\* nothing; a datagram is only ever sent by the worker's current reader task
\* or by a reader task that stop_workers has aborted and that has not been
\* dropped yet; so once the worker's reader task has failed, every reader
\* task has ended or was aborted by an earlier stop_workers, and only such
\* an aborted task can still forward a packet, until start_workers spawns a
\* new reader task.
C18_NoDatagramSizeFatal ==
    /\ [][NoMdsEndsReader]_vars
    /\ [][sent' /= sent =>
            \E t \in Readers :
                /\ DoneAtDispatch(t)
                /\ t = reader_task \/ tasks[t].abort]_vars
    /\ [](reader_task /= NoTask /\ Failed(reader_task)
            => \A t \in Readers : tasks[t].pc = "done" \/ tasks[t].abort)
    /\ [][(FailedOnNoMds /\ sent' /= sent) =>
            \E t \in Readers :
                t /= reader_task /\ tasks[t].abort /\ DoneAtDispatch(t)]_vars

\* C18's case: the reader failed on a packet for a connection with no max
\* datagram size; the workers were restarted, and the new reader is about
\* to forward a packet to another connection
C18_Witness ==
    \E t1, t2 \in Readers :
        /\ last.task = t1
        /\ last.outcome = "no_mds"
        /\ Failed(t1)
        /\ reader_task = t2
        /\ t2 /= t1
        /\ tasks[t2].pc = "dispatch"
        /\ Outcome(tasks[t2].buf, tasks[t2].dest) = "sent"

(***************************************************************************)
(* start_workers and stop_workers after a task has ended by itself         *)
(* (checked under Spec)                                                    *)
(***************************************************************************)
\* task t has returned from its body: it was not dropped by an abort
SelfEnded(t) ==
    /\ t \in TaskIds
    /\ tasks[t].pc = "done"
    /\ tasks[t].result \in {"ok", "err"}

\* the worker is started and one of its two tasks has ended by itself
TaskEndedByItself ==
    /\ senders_open
    /\ reader_task /= NoTask
    /\ SelfEnded(reader_task) \/ SelfEnded(writer_task)

\* C19: while the worker is started and one of its tasks has ended by
\* itself, start_workers can only return its error and spawns nothing, and
\* stop_workers succeeds; stop_workers clears both handles, after which
\* start_workers succeeds; and a start_workers that succeeds leaves one new
\* reader task and one new writer task, every older task having ended or
\* been aborted.
C19_RestartAfterSelfEnd ==
    /\ [](TaskEndedByItself =>
            /\ ENABLED start_workers_err
            /\ ~ENABLED start_workers_ok
            /\ ENABLED stop_workers_ok
            /\ ~ENABLED stop_workers_err)
    /\ [][TaskEndedByItself /\ reader_task' /= reader_task
            => reader_task' = NoTask /\ writer_task' = NoTask]_vars
    /\ [](senders_open /\ reader_task = NoTask /\ Len(tasks) < 2 * MaxStarts
            => writer_task = NoTask /\ ENABLED start_workers_ok)
    /\ [][reader_task = NoTask /\ reader_task' /= NoTask =>
            /\ Len(tasks') = Len(tasks) + 2
            /\ tasks'[reader_task'] = NewTask("reader")
            /\ tasks'[writer_task'] = NewTask("writer")
            /\ \A t \in TaskIds : tasks'[t].pc = "done" \/ tasks'[t].abort]_vars

\* C19's case: the first reader task ended with an error, the workers were
\* stopped, which dropped the first writer task, and started again; the new
\* reader task is reading
C19_Witness ==
    /\ Len(tasks) = 4
    /\ tasks[1].pc = "done" /\ tasks[1].result = "err"
    /\ tasks[2].pc = "done" /\ tasks[2].result = "cancelled"
    /\ reader_task = 3
    /\ writer_task = 4
    /\ tasks[3].pc = "read"

(***************************************************************************)
(* add_connection against the running reader (checked under               *)
(* SpecReaderFair)                                                         *)
(***************************************************************************)
\* C20: a read guard of the connection map is held only by a reader task
\* that is between its lookup and the end of that packet's processing,
\* never by one waiting for the device; a guard that is held is given back,
\* so that the write guard add_connection waits for becomes free; and a
\* packet read for an address that add_connection has registered is looked
\* up and found to belong to the connection registered last.
C20_AddConnectionCompletes ==
    /\ [](\A t \in TaskIds : t \in map_readers <=> tasks[t].pc = "dispatch")
    /\ (map_readers /= {}) ~> (map_readers = {})
    /\ [](senders_open /\ map_readers = {} =>
            \A ip \in Ips, c \in Conns :
                Lookup(ip) /= c => ENABLED add_connection(ip, c))
    /\ [][\A t \in Readers :
            /\ DoneAtParse(t) => Registered(last'.buf) = NoConn
            /\ DoneAtDispatch(t) /\ Registered(tasks[t].buf) /= NoConn
                   => Lookup(tasks[t].dest) = Registered(tasks[t].buf)]_vars

====
